---------------------------- MODULE Spec2Model ----------------------------
(***************************************************************************)
(* A model of lukas-tr/blog:                                               *)
(*   - the UtterancesComments component and its inline ref callback        *)
(*     (src/src/components/UtterancesComments.js lines 1-21),              *)
(*   - Body.render and the gatsby plugin manifest (same file, lines        *)
(*     23-203), run by a build that executes the plugins in listed order   *)
(*     and then renders a page,                                            *)
(*   - the Go resolver of the GraphQL tutorial (src/unnamed/part_000,      *)
(*     lines 103-172).                                                     *)
(* Each part has its own specification; the variables of the other parts   *)
(* stay at their initial values.                                           *)
(***************************************************************************)
EXTENDS Integers, Sequences, FiniteSets, TLC

VARIABLES
    \* ---- UtterancesComments (browser) ----
    NODE_ENV,       \* process.env.NODE_ENV, fixed at build time
    mounted,        \* whether the <section> is currently attached
    sectionId,      \* identity of the current <section> DOM node (0: none yet)
    children,       \* child list of the current <section> node
    pending,        \* ref-callback invocations React has scheduled, in order
    cpc,            \* position inside the ref callback ("idle": not running)
    elem,           \* the callback's argument: "null" or "section"
    scriptElem,     \* the callback's local const scriptElem
    created,        \* number of document.createElement calls so far
    appended,       \* number of appendChild calls so far
    mounts,         \* number of mounts so far
    rerenders,      \* number of re-renders so far
    error,          \* whether the callback threw
    entryChildren,  \* history: children when the running/last invocation began
    entryCreated,   \* history: created when the running/last invocation began
    outcome,        \* history: "none" | "noop" | "appended" for the running/last invocation
    \* ---- build: plugin executor and Body.render ----
    props,          \* this.props of Body
    ran,            \* names of the plugins executed so far, in execution order
    rendered,       \* whether Body.render has returned
    threw,          \* whether Body.render threw
    head,           \* the rendered head: title, meta tags, JSON-LD, wrapper class
    \* ---- tutorial's Go resolver ----
    mutex,          \* sync.RWMutex: [w |-> holder of the write lock or Nobody, r |-> set of read holders]
    subscribers,    \* key set of r.noteCreatedSubscribers
    notes,          \* r.notes
    chan,           \* per subscriber: content of its noteChan (capacity ChanCap)
    gpc,            \* per goroutine: its position
    todo,           \* per CreateNote call: subscribers its range loop has not yet visited
    cur,            \* per CreateNote call: the subscriber its range loop is at
    sentTo,         \* per CreateNote call: subscribers it has sent its note to
    ctxDone,        \* per subscriber: whether its context is done (client disconnected)
    result          \* per call: what it returned, <<"none">> before it returns

commentsVars == <<NODE_ENV, mounted, sectionId, children, pending, cpc, elem, scriptElem,
                  created, appended, mounts, rerenders, error, entryChildren, entryCreated, outcome>>
buildVars == <<props, ran, rendered, threw, head>>
resolverVars == <<mutex, subscribers, notes, chan, gpc, todo, cur, sentTo, ctxDone, result>>
vars == <<commentsVars, buildVars, resolverVars>>

----------------------------------------------------------------------------
(* Bounds of the model.                                                    *)
MaxMounts == 2
MaxRerenders == 2
NumCreators == 2
NumSubscribers == 2
NumQueries == 1

----------------------------------------------------------------------------
(***************************************************************************)
(* UtterancesComments                                                      *)
(***************************************************************************)
Envs == {"development", "production", "test"}

NoElem == [id |-> 0, tag |-> "none", attrs |-> {}]

\* document.createElement("script"): a fresh element without attributes
CreateElement(tag, n) == [id |-> n, tag |-> tag, attrs |-> {}]

\* IDL properties of HTMLScriptElement reflect content attributes; crossOrigin
\* reflects the attribute named crossorigin.
ReflectedAttr(prop) == IF prop = "crossOrigin" THEN "crossorigin" ELSE prop

\* element.setAttribute(name, value): replaces any earlier value of name
SetAttribute(e, name, value) ==
    [e EXCEPT !.attrs = {p \in @ : p[1] # name} \cup {<<name, value>>}]

\* element.prop = value for a reflecting property
SetProperty(e, prop, value) == SetAttribute(e, ReflectedAttr(prop), value)

AppendChildFirst(kids, e) == <<e>> \o kids

\* parent.appendChild(e) for an e that is not yet in the tree
AppendChild(kids, e) == Append(kids, e)

Line7GuardNoEnvCheck(el, env) == el = "null"

\* if (!elem || process.env.NODE_ENV === "development") return;
Line7Guard(el, env) == el = "null" \/ env = "development"

CommentsInit ==
    /\ NODE_ENV \in Envs
    /\ mounted = FALSE
    /\ sectionId = 0
    /\ children = <<>>
    /\ pending = <<>>
    /\ cpc = "idle"
    /\ elem = "null"
    /\ scriptElem = NoElem
    /\ created = 0
    /\ appended = 0
    /\ mounts = 0
    /\ rerenders = 0
    /\ error = FALSE
    /\ entryChildren = <<>>
    /\ entryCreated = 0
    /\ outcome = "none"

ReactQuiet == cpc = "idle" /\ pending = <<>> /\ ~error

\* React mounts the component: a new, empty <section> node is created and the
\* ref callback is called with it.
Mount ==
    /\ ReactQuiet /\ ~mounted /\ mounts < MaxMounts
    /\ mounted' = TRUE
    /\ sectionId' = sectionId + 1
    /\ children' = <<>>
    /\ pending' = <<"section">>
    /\ mounts' = mounts + 1
    /\ entryChildren' = <<>>
    /\ outcome' = "none"
    /\ UNCHANGED <<NODE_ENV, cpc, elem, scriptElem, created, appended, rerenders, error,
                   entryCreated>>

\* React re-renders the mounted component: the inline arrow function is a new
\* function, so the old ref is detached (called with null) and the new one is
\* attached (called with the same node).
Rerender ==
    /\ ReactQuiet /\ mounted /\ rerenders < MaxRerenders
    /\ pending' = <<"null", "section">>
    /\ rerenders' = rerenders + 1
    /\ UNCHANGED <<NODE_ENV, mounted, sectionId, children, cpc, elem, scriptElem, created,
                   appended, mounts, error, entryChildren, entryCreated, outcome>>

\* React unmounts the component: the ref is detached (called with null).
Unmount ==
    /\ ReactQuiet /\ mounted
    /\ mounted' = FALSE
    /\ pending' = <<"null">>
    /\ UNCHANGED <<NODE_ENV, sectionId, children, cpc, elem, scriptElem, created, appended,
                   mounts, rerenders, error, entryChildren, entryCreated, outcome>>

\* elem => { ... } is entered with the next scheduled argument
Invoke ==
    /\ cpc = "idle" /\ pending # <<>> /\ ~error
    /\ elem' = Head(pending)
    /\ pending' = Tail(pending)
    /\ cpc' = "l7"
    /\ scriptElem' = NoElem
    /\ entryChildren' = children
    /\ entryCreated' = created
    /\ outcome' = "none"
    /\ UNCHANGED <<NODE_ENV, mounted, sectionId, children, created, appended, mounts,
                   rerenders, error>>

CallbackFrame == <<NODE_ENV, mounted, sectionId, pending, elem, mounts, rerenders,
                   entryChildren, entryCreated>>

Line7 ==
    /\ cpc = "l7"
    /\ IF Line7Guard(elem, NODE_ENV)
          THEN cpc' = "idle" /\ outcome' = "noop"
          ELSE cpc' = "l10" /\ outcome' = outcome
    /\ UNCHANGED <<CallbackFrame, children, scriptElem, created, appended, error>>

Line10 ==
    /\ cpc = "l10"
    /\ scriptElem' = CreateElement("script", created + 1)
    /\ created' = created + 1
    /\ cpc' = "l11"
    /\ UNCHANGED <<CallbackFrame, children, appended, error, outcome>>

\* one statement that configures scriptElem and moves on
Configure(at, e, next) ==
    /\ cpc = at
    /\ scriptElem' = e
    /\ cpc' = next
    /\ UNCHANGED <<CallbackFrame, children, created, appended, error, outcome>>

Line11 == Configure("l11", SetProperty(scriptElem, "src", "https://utteranc.es/client.js"), "l12")
\* the boolean true of scriptElem.async is written as the string "true"
Line12 == Configure("l12", SetProperty(scriptElem, "async", "true"), "l13")
Line13 == Configure("l13", SetProperty(scriptElem, "crossOrigin", "anonymous"), "l14")
Line14 == Configure("l14", SetAttribute(scriptElem, "repo", "lukas-tr/blog"), "l15")
Line15 == Configure("l15", SetAttribute(scriptElem, "issue-term", "title"), "l16")
Line16Skipped == Configure("l16", scriptElem, "l17")
Line16 == Configure("l16", SetAttribute(scriptElem, "label", "comment"), "l17")
Line17Skipped == Configure("l17", scriptElem, "l18")
Line17 == Configure("l17", SetAttribute(scriptElem, "theme", "github-light"), "l18")

\* elem.appendChild(scriptElem); a null elem would throw a TypeError
Line18 ==
    /\ cpc = "l18"
    /\ IF elem = "null"
          THEN /\ error' = TRUE
               /\ UNCHANGED <<children, appended, outcome>>
          ELSE /\ children' = AppendChild(children, scriptElem)
               /\ appended' = appended + 1
               /\ outcome' = "appended"
               /\ error' = error
    /\ cpc' = "idle"
    /\ UNCHANGED <<CallbackFrame, scriptElem, created>>

\* a step of the component leaves the build and the resolver alone
InBrowser(A) == A /\ UNCHANGED <<buildVars, resolverVars>>

NextComments ==
    \/ InBrowser(Mount) \/ InBrowser(Rerender) \/ InBrowser(Unmount) \/ InBrowser(Invoke)
    \/ InBrowser(Line7) \/ InBrowser(Line10) \/ InBrowser(Line11) \/ InBrowser(Line12)
    \/ InBrowser(Line13) \/ InBrowser(Line14) \/ InBrowser(Line15) \/ InBrowser(Line16)
    \/ InBrowser(Line17) \/ InBrowser(Line18)

----------------------------------------------------------------------------
(***************************************************************************)
(* JavaScript values, as far as Body.render uses them.  A string is a      *)
(* sequence of pieces, so that concatenation is \o and "" is <<>>.         *)
(***************************************************************************)
Undefined == [t |-> "undefined", s |-> <<>>]
NaN == [t |-> "number", s |-> <<"NaN">>]
Str(pieces) == [t |-> "string", s |-> pieces]
\* an object literal with the given <<key, value>> members
Obj(members) ==
    [t |-> "object",
     s |-> [k \in {m[1] : m \in members} |-> (CHOOSE m \in members : m[1] = k)[2]]]

\* ToBoolean: undefined, "" and NaN are falsy
Truthy(v) ==
    CASE v.t = "undefined" -> FALSE
      [] v.t = "string" -> v.s # <<>>
      [] v.t = "number" -> FALSE
      [] OTHER -> TRUE

\* JsToString
JsToString(v) ==
    CASE v.t = "undefined" -> <<"undefined">>
      [] v.t = "string" -> v.s
      [] v.t = "number" -> v.s
      [] OTHER -> <<"[object Object]">>

\* a && b
JsAnd(a, b) == IF Truthy(a) THEN b ELSE a

\* a + b: concatenation when either operand is a string (or an object), else
\* numeric addition, which for undefined operands is NaN
JsPlus(a, b) ==
    IF a.t \in {"string", "object"} \/ b.t \in {"string", "object"}
       THEN Str(JsToString(a) \o JsToString(b))
       ELSE NaN

\* lodash _.get(object, path): undefined as soon as a step of the path is missing
RECURSIVE Get(_, _)
Get(o, path) ==
    IF path = <<>> THEN o
    ELSE IF o.t = "object" /\ Head(path) \in DOMAIN o.s
            THEN Get(o.s[Head(path)], Tail(path))
            ELSE Undefined

----------------------------------------------------------------------------
(***************************************************************************)
(* Body.render                                                             *)
(***************************************************************************)
FrontmatterTitlePath == <<"pageContext", "frontmatter", "title">>
SiteMetadataPath(key) == <<"pageContext", "site", "siteMetadata", key>>

TitleNoSeparator(p) ==
    JsPlus(Get(p, FrontmatterTitlePath), Get(p, SiteMetadataPath("title")))

\* line 34: (get(fm.title) && (get(fm.title) + ' - ')) + get(siteMetadata.title)
Title(p) ==
    JsPlus(JsAnd(Get(p, FrontmatterTitlePath),
                 JsPlus(Get(p, FrontmatterTitlePath), Str(<<" - ">>))),
           Get(p, SiteMetadataPath("title")))

Description(p) == Get(p, SiteMetadataPath("description"))
Author(p) == Get(p, SiteMetadataPath("author"))
Image(p) == Get(p, SiteMetadataPath("image"))
Url(p) == Get(p, SiteMetadataPath("siteUrl"))

MetaName(n, c) == [name |-> Str(<<n>>), property |-> Undefined, content |-> c]
MetaProperty(n, c) == [name |-> Undefined, property |-> Str(<<n>>), content |-> c]

\* lines 63-104: the array mapped to <meta> elements, in order
Metas(p) ==
    << MetaName("description", Description(p)),
       MetaProperty("og:title", Title(p)),
       MetaProperty("og:description", Description(p)),
       MetaProperty("og:type", Str(<<"website">>)),
       MetaProperty("og:image", Image(p)),
       MetaName("twitter:card", Str(<<"summary">>)),
       MetaName("twitter:creator", Author(p)),
       MetaName("twitter:title", Title(p)),
       MetaName("twitter:description", Description(p)),
       MetaName("twitter:image", Image(p)) >>

\* JSON.stringify of an object literal: members whose value is undefined are left out
JsonStringify(members) == SelectSeq(members, LAMBDA m : m[2].t # "undefined")

\* lines 43-50
JsonLd(p) ==
    JsonStringify(<< <<"@context", Str(<<"https://schema.org">>)>>,
                     <<"@type", Str(<<"WebSite">>)>>,
                     <<"url", Url(p)>> >>)

\* line 106
ClassName(p) ==
    JsPlus(JsPlus(JsPlus(Str(<<"site style-">>), Get(p, SiteMetadataPath("layout_style"))),
                  Str(<<" palette-">>)),
           Get(p, SiteMetadataPath("palette")))

NoHead == [title |-> Undefined, metas |-> <<>>, jsonld |-> <<>>, className |-> Undefined]

\* the value render() hands to Helmet and the wrapper div
RenderHead(p) ==
    [title |-> Title(p), metas |-> Metas(p), jsonld |-> JsonLd(p), className |-> ClassName(p)]

(* Contexts: every field may be missing, at every level. *)
Opt(key, values) == {{}} \cup {{<<key, v>>} : v \in values}

SiteMetadataObjs ==
    { Obj(t \cup d \cup a \cup i \cup u \cup l \cup c) :
        t \in Opt("title", {Str(<<>>), Str(<<"Blog">>)}),
        d \in Opt("description", {Str(<<"A blog">>)}),
        a \in Opt("author", {Str(<<"@lukas">>)}),
        i \in Opt("image", {Str(<<"/images/me.png">>)}),
        u \in Opt("siteUrl", {Str(<<"https://blog.lukastroyer.com">>)}),
        l \in Opt("layout_style", {Str(<<"classic">>)}),
        c \in Opt("palette", {Str(<<"blue">>)}) }

SiteObjs == { Obj(m) : m \in Opt("siteMetadata", SiteMetadataObjs) }
FrontmatterObjs == { Obj(t) : t \in Opt("title", {Str(<<>>), Str(<<"Hello">>)}) }
PageContextObjs ==
    { Obj(f \cup s) : f \in Opt("frontmatter", FrontmatterObjs), s \in Opt("site", SiteObjs) }
PropsObjs == { Obj(c) : c \in Opt("pageContext", PageContextObjs) }

----------------------------------------------------------------------------
(***************************************************************************)
(* The plugin manifest and the build that consumes it                      *)
(***************************************************************************)
Plain(name) == [kind |-> "string", resolve |-> name]
WithOptions(name) == [kind |-> "object", resolve |-> name]

pluginsPageCreatorFirst ==
    << WithOptions("gatsby-plugin-sitemap"),
       WithOptions("gatsby-plugin-robots-txt"),
       Plain("gatsby-plugin-react-helmet"),
       Plain("gatsby-source-data"),
       WithOptions("gatsby-source-filesystem"),
       WithOptions("gatsby-plugin-stackbit-static-sass"),
       WithOptions("gatsby-remark-page-creator"),
       WithOptions("gatsby-transformer-remark"),
       WithOptions("@stackbit/gatsby-plugin-menus") >>

\* module.exports.plugins
plugins ==
    << WithOptions("gatsby-plugin-sitemap"),
       WithOptions("gatsby-plugin-robots-txt"),
       Plain("gatsby-plugin-react-helmet"),
       Plain("gatsby-source-data"),
       WithOptions("gatsby-source-filesystem"),
       WithOptions("gatsby-plugin-stackbit-static-sass"),
       WithOptions("gatsby-transformer-remark"),
       WithOptions("gatsby-remark-page-creator"),
       WithOptions("@stackbit/gatsby-plugin-menus") >>

\* a manifest entry is a plugin name or an object whose resolve member names it
PluginName(entry) == entry.resolve

BuildInit ==
    /\ props \in PropsObjs
    /\ ran = <<>>
    /\ rendered = FALSE
    /\ threw = FALSE
    /\ head = NoHead

\* the generator runs the next plugin of the manifest, in listed order
RunPlugin ==
    /\ Len(ran) < Len(plugins)
    /\ ran' = Append(ran, PluginName(plugins[Len(ran) + 1]))
    /\ UNCHANGED <<props, rendered, threw, head>>

\* Body.render(), once the pages exist
Render ==
    /\ Len(ran) = Len(plugins)
    /\ ~rendered
    /\ rendered' = TRUE
    /\ head' = RenderHead(props)
    /\ UNCHANGED <<props, ran, threw>>

\* a step of the build leaves the browser and the resolver alone
InBuild(A) == A /\ UNCHANGED <<commentsVars, resolverVars>>

NextBuild == InBuild(RunPlugin) \/ InBuild(Render)

----------------------------------------------------------------------------
(***************************************************************************)
(* The tutorial's Go resolver.  Every call is a goroutine; uuid.NewRandom  *)
(* yields a fresh id or an error; a note and a subscription are named by   *)
(* the call that made them.                                                *)
(***************************************************************************)
\* make(chan *Note, 1)
ChanCap == 1

Creators == {<<"create", i>> : i \in 1..NumCreators}
Subscribers == {<<"sub", i>> : i \in 1..NumSubscribers}
Queries == {<<"query", i>> : i \in 1..NumQueries}
\* the goroutine NoteCreated starts for subscription s
Unsub(s) == <<"unsub", s[2]>>
Unsubs == {Unsub(s) : s \in Subscribers}
Goroutines == Creators \cup Subscribers \cup Queries \cup Unsubs
Nobody == <<"nobody", 0>>

\* NewResolver(): an empty map, no notes, the zero RWMutex
ResolverInit ==
    /\ mutex = [w |-> Nobody, r |-> {}]
    /\ subscribers = {}
    /\ notes = <<>>
    /\ chan = [s \in Subscribers |-> <<>>]
    /\ gpc = [g \in Goroutines |-> "idle"]
    /\ todo = [c \in Creators |-> {}]
    /\ cur = [c \in Creators |-> Nobody]
    /\ sentTo = [c \in Creators |-> {}]
    /\ ctxDone = [s \in Subscribers |-> FALSE]
    /\ result = [g \in Creators \cup Subscribers \cup Queries |-> <<"none">>]

\* r.mutex.Lock() returns
Lock(g) ==
    /\ mutex.w = Nobody /\ mutex.r = {}
    /\ mutex' = [mutex EXCEPT !.w = g]

\* r.mutex.Unlock()
Unlocked == [mutex EXCEPT !.w = Nobody]

\* a request arrives and its resolver starts: the goroutine reaches Lock/RLock
Call(g, at) ==
    /\ gpc[g] = "idle"
    /\ gpc' = [gpc EXCEPT ![g] = at]
    /\ UNCHANGED <<mutex, subscribers, notes, chan, todo, cur, sentTo, ctxDone, result>>

CreateCall(c) == Call(c, "lock")
SubCall(s) == Call(s, "lock")
QueryCall(q) == Call(q, "rlock")

\* line 129
CreateLock(c) ==
    /\ gpc[c] = "lock"
    /\ Lock(c)
    /\ gpc' = [gpc EXCEPT ![c] = "uuid"]
    /\ UNCHANGED <<subscribers, notes, chan, todo, cur, sentTo, ctxDone, result>>

\* lines 131-136: on a uuid error return it (the deferred Unlock runs), else
\* append the note and start ranging over the subscribers
CreateAppend(c) ==
    /\ gpc[c] = "uuid"
    /\ \E err \in BOOLEAN :
         IF err
            THEN /\ mutex' = Unlocked
                 /\ result' = [result EXCEPT ![c] = <<"error">>]
                 /\ gpc' = [gpc EXCEPT ![c] = "done"]
                 /\ UNCHANGED <<notes, todo>>
            ELSE /\ notes' = Append(notes, c)
                 /\ todo' = [todo EXCEPT ![c] = subscribers]
                 /\ gpc' = [gpc EXCEPT ![c] = "range"]
                 /\ UNCHANGED <<mutex, result>>
    /\ UNCHANGED <<subscribers, chan, cur, sentTo, ctxDone>>

\* line 137: the range loop takes the next map entry, in no particular order,
\* or ends, and then line 140 returns the note (the deferred Unlock runs)
CreateRange(c) ==
    /\ gpc[c] = "range"
    /\ IF todo[c] = {}
          THEN /\ mutex' = Unlocked
               /\ result' = [result EXCEPT ![c] = <<"note">>]
               /\ gpc' = [gpc EXCEPT ![c] = "done"]
               /\ UNCHANGED <<todo, cur>>
          ELSE /\ \E s \in todo[c] :
                    /\ cur' = [cur EXCEPT ![c] = s]
                    /\ todo' = [todo EXCEPT ![c] = @ \ {s}]
               /\ gpc' = [gpc EXCEPT ![c] = "send"]
               /\ UNCHANGED <<mutex, result>>
    /\ UNCHANGED <<subscribers, notes, chan, sentTo, ctxDone>>

\* line 138: subscriber <- note blocks while the channel's buffer is full
CreateSend(c) ==
    /\ gpc[c] = "send"
    /\ Len(chan[cur[c]]) < ChanCap
    /\ chan' = [chan EXCEPT ![cur[c]] = Append(@, c)]
    /\ sentTo' = [sentTo EXCEPT ![c] = @ \cup {cur[c]}]
    /\ gpc' = [gpc EXCEPT ![c] = "range"]
    /\ UNCHANGED <<mutex, subscribers, notes, todo, cur, ctxDone, result>>

\* line 147
QueryRLock(q) ==
    /\ gpc[q] = "rlock"
    /\ mutex.w = Nobody
    /\ mutex' = [mutex EXCEPT !.r = @ \cup {q}]
    /\ gpc' = [gpc EXCEPT ![q] = "read"]
    /\ UNCHANGED <<subscribers, notes, chan, todo, cur, sentTo, ctxDone, result>>

\* lines 148-149
QueryReturn(q) ==
    /\ gpc[q] = "read"
    /\ result' = [result EXCEPT ![q] = <<"notes", notes>>]
    /\ mutex' = [mutex EXCEPT !.r = @ \ {q}]
    /\ gpc' = [gpc EXCEPT ![q] = "done"]
    /\ UNCHANGED <<subscribers, notes, chan, todo, cur, sentTo, ctxDone>>

\* line 156
SubLock(s) ==
    /\ gpc[s] = "lock"
    /\ Lock(s)
    /\ gpc' = [gpc EXCEPT ![s] = "uuid"]
    /\ UNCHANGED <<subscribers, notes, chan, todo, cur, sentTo, ctxDone, result>>

\* lines 158-171: on a uuid error return it, else register the new channel,
\* start the goroutine that waits for ctx.Done(), and return the channel
SubRegister(s) ==
    /\ gpc[s] = "uuid"
    /\ \E err \in BOOLEAN :
         IF err
            THEN /\ result' = [result EXCEPT ![s] = <<"error">>]
                 /\ gpc' = [gpc EXCEPT ![s] = "done"]
                 /\ UNCHANGED <<subscribers, chan>>
            ELSE /\ subscribers' = subscribers \cup {s}
                 /\ chan' = [chan EXCEPT ![s] = <<>>]
                 /\ result' = [result EXCEPT ![s] = <<"chan">>]
                 /\ gpc' = [gpc EXCEPT ![s] = "done", ![Unsub(s)] = "wait"]
    /\ mutex' = Unlocked
    /\ UNCHANGED <<notes, todo, cur, sentTo, ctxDone>>

\* line 166: <-ctx.Done() returns, the goroutine reaches line 167
UnsubWake(s) ==
    /\ gpc[Unsub(s)] = "wait"
    /\ ctxDone[s]
    /\ gpc' = [gpc EXCEPT ![Unsub(s)] = "lock"]
    /\ UNCHANGED <<mutex, subscribers, notes, chan, todo, cur, sentTo, ctxDone, result>>

\* line 167
UnsubLock(s) ==
    /\ gpc[Unsub(s)] = "lock"
    /\ Lock(Unsub(s))
    /\ gpc' = [gpc EXCEPT ![Unsub(s)] = "delete"]
    /\ UNCHANGED <<subscribers, notes, chan, todo, cur, sentTo, ctxDone, result>>

\* lines 168-169
UnsubDelete(s) ==
    /\ gpc[Unsub(s)] = "delete"
    /\ subscribers' = subscribers \ {s}
    /\ mutex' = Unlocked
    /\ gpc' = [gpc EXCEPT ![Unsub(s)] = "done"]
    /\ UNCHANGED <<notes, chan, todo, cur, sentTo, ctxDone, result>>

\* the client of a started subscription disconnects: its context is done
Disconnect(s) ==
    /\ gpc[s] # "idle"
    /\ ~ctxDone[s]
    /\ ctxDone' = [ctxDone EXCEPT ![s] = TRUE]
    /\ UNCHANGED <<mutex, subscribers, notes, chan, gpc, todo, cur, sentTo, result>>

\* the transport forwards the next note of a returned channel to its client,
\* as long as the client is connected
Receive(s) ==
    /\ result[s] = <<"chan">>
    /\ ~ctxDone[s]
    /\ chan[s] # <<>>
    /\ chan' = [chan EXCEPT ![s] = Tail(@)]
    /\ UNCHANGED <<mutex, subscribers, notes, gpc, todo, cur, sentTo, ctxDone, result>>

\* a step of the resolver leaves the browser and the build alone
InServer(A) == A /\ UNCHANGED <<commentsVars, buildVars>>

NextResolver ==
    \/ \E c \in Creators :
         \/ InServer(CreateCall(c)) \/ InServer(CreateLock(c)) \/ InServer(CreateAppend(c))
         \/ InServer(CreateRange(c)) \/ InServer(CreateSend(c))
    \/ \E q \in Queries :
         InServer(QueryCall(q)) \/ InServer(QueryRLock(q)) \/ InServer(QueryReturn(q))
    \/ \E s \in Subscribers :
         \/ InServer(SubCall(s)) \/ InServer(SubLock(s)) \/ InServer(SubRegister(s))
         \/ InServer(UnsubWake(s)) \/ InServer(UnsubLock(s)) \/ InServer(UnsubDelete(s))
         \/ InServer(Disconnect(s)) \/ InServer(Receive(s))

\* The Go scheduler runs every runnable goroutine, sync.RWMutex does not starve
\* a waiter, and a connected client keeps reading.  Requests and disconnects
\* are up to the clients.
ResolverFairness ==
    /\ \A c \in Creators :
         /\ SF_vars(InServer(CreateLock(c)))
         /\ WF_vars(InServer(CreateAppend(c))) /\ WF_vars(InServer(CreateRange(c))) /\ WF_vars(InServer(CreateSend(c)))
    /\ \A q \in Queries : SF_vars(InServer(QueryRLock(q))) /\ WF_vars(InServer(QueryReturn(q)))
    /\ \A s \in Subscribers :
         /\ SF_vars(InServer(SubLock(s))) /\ WF_vars(InServer(SubRegister(s)))
         /\ WF_vars(InServer(UnsubWake(s))) /\ SF_vars(InServer(UnsubLock(s))) /\ WF_vars(InServer(UnsubDelete(s)))
         /\ SF_vars(InServer(Receive(s)))

----------------------------------------------------------------------------
(***************************************************************************)
(* Specifications                                                          *)
(***************************************************************************)
\* a part that is not running: the component before its first mount in a
\* production build, the build before its first plugin, the fresh resolver
CommentsIdle == CommentsInit /\ NODE_ENV = "production"
BuildIdle == BuildInit /\ props = Obj({})
ResolverIdle == ResolverInit

InitComments == CommentsInit /\ BuildIdle /\ ResolverIdle
InitBuild == CommentsIdle /\ BuildInit /\ ResolverIdle
InitResolver == CommentsIdle /\ BuildIdle /\ ResolverInit

SpecComments == InitComments /\ [][NextComments]_vars
SpecBuild == InitBuild /\ [][NextBuild]_vars
SpecResolver == InitResolver /\ [][NextResolver]_vars
FairSpecResolver == SpecResolver /\ ResolverFairness

----------------------------------------------------------------------------
(***************************************************************************)
(* Properties of UtterancesComments (checked under SpecComments)           *)
(***************************************************************************)
\* src, async, crossorigin, repo, issue-term, label, theme as lines 11-17 set them
ExpectedAttrs ==
    { <<"src", "https://utteranc.es/client.js">>, <<"async", "true">>,
      <<"crossorigin", "anonymous">>, <<"repo", "lukas-tr/blog">>,
      <<"issue-term", "title">>, <<"label", "comment">>, <<"theme", "github-light">> }

AttrNames(e) == {p[1] : p \in e.attrs}

\* the callback is running, or has returned and nothing happened since
InOrAfterCallback == cpc # "idle" \/ outcome # "none"

\* C1: a ref callback invoked with a null element, or in a development
\* build, never gets past its guard: it creates no element, leaves the
\* section's children as they were, throws nothing and returns as a no-op.
C1_GuardedCallbackIsNoOp ==
    (InOrAfterCallback /\ (elem = "null" \/ NODE_ENV = "development")) =>
        /\ children = entryChildren
        /\ created = entryCreated
        /\ scriptElem = NoElem
        /\ ~error
        /\ cpc \in {"l7", "idle"}
        /\ (cpc = "idle" => outcome = "noop")

\* a development build whose callback was called with the mounted section and returned
C1_Witness ==
    /\ NODE_ENV = "development" /\ mounted /\ elem = "section"
    /\ cpc = "idle" /\ outcome = "noop" /\ mounts = 1

\* C2: a ref callback invoked with the section outside development returns
\* having added exactly one child, after the children that were there: a
\* script element created by this invocation that carries exactly src,
\* async, crossorigin, repo, issue-term, label and theme with their fixed
\* values, whatever NODE_ENV and the mount history are.
C2_InjectsConfiguredScript ==
    (cpc = "idle" /\ outcome # "none" /\ elem = "section" /\ NODE_ENV # "development") =>
        /\ outcome = "appended"
        /\ ~error
        /\ created = entryCreated + 1
        /\ Len(children) = Len(entryChildren) + 1
        /\ SubSeq(children, 1, Len(entryChildren)) = entryChildren
        /\ children[Len(children)].tag = "script"
        /\ children[Len(children)].id = created
        /\ children[Len(children)].attrs = ExpectedAttrs

\* the first invocation of a production build has returned
C2_Witness ==
    /\ NODE_ENV = "production" /\ cpc = "idle" /\ outcome = "appended"
    /\ mounts = 1 /\ rerenders = 0 /\ Len(children) = 1

\* C3: outside development, whenever React is quiet the number of scripts
\* appended so far equals the number of mounts so far, and a mounted section
\* holds at most one injected script.
C3_OneScriptPerMount ==
    (NODE_ENV # "development" /\ cpc = "idle" /\ pending = <<>>) =>
        /\ appended = mounts
        /\ (mounted => Len(children) <= 1)

\* C6 as stated: every script the callback appends carries exactly five attributes.
C6_FiveAttributes ==
    \A i \in DOMAIN children : Cardinality(AttrNames(children[i])) = 5

\* C6, amended: when the callback reaches appendChild it has set exactly
\* seven attributes on the script element (src, async, crossorigin, repo,
\* issue-term, label, theme), and so has every script it appended.
C6_SevenAttributes ==
    /\ cpc = "l18" =>
          /\ Cardinality(AttrNames(scriptElem)) = 7
          /\ AttrNames(scriptElem) = {p[1] : p \in ExpectedAttrs}
    /\ \A i \in DOMAIN children : Cardinality(AttrNames(children[i])) = 7

\* the callback is about to append the script it configured
C6_Witness == cpc = "l18" /\ elem = "section" /\ scriptElem.tag = "script"

\* C10: every child of the section carries all seven attributes in every
\* state; the child list of a section changes only in the appendChild step,
\* which is the callback's last step, appends the fully configured script
\* after the existing children and keeps those in place.
C10_AppendsOnlyWhenConfigured ==
    /\ [](\A i \in DOMAIN children : ExpectedAttrs \subseteq children[i].attrs)
    /\ [][ (sectionId' = sectionId /\ children' # children) =>
              /\ cpc = "l18" /\ cpc' = "idle"
              /\ ExpectedAttrs \subseteq scriptElem.attrs
              /\ children' = children \o <<scriptElem>> ]_vars

\* a script was appended to a section that already had a child
C10_Witness ==
    /\ Len(children) = 2 /\ Len(entryChildren) = 1 /\ outcome = "appended"
    /\ children[1].id # children[2].id

----------------------------------------------------------------------------
(***************************************************************************)
(* Properties of the build (checked under SpecBuild)                       *)
(***************************************************************************)
\* the content of the <meta> whose name or property is key
MetaContent(h, key) ==
    LET i == CHOOSE j \in DOMAIN h.metas :
                 h.metas[j].name = Str(<<key>>) \/ h.metas[j].property = Str(<<key>>)
    IN  h.metas[i].content

Missing(path) == Get(props, path) = Undefined
EmptyOrUndefined(v) == v = Undefined \/ v = Str(<<>>)

\* C4: render does not throw, and a tag fed by a missing field has empty or
\* undefined content: the title tags when either title is missing, the
\* description tags, the image tags, twitter:creator, and the JSON-LD url.
C4_MissingFieldsRenderEmpty ==
    rendered =>
        /\ ~threw
        /\ (Missing(FrontmatterTitlePath) \/ Missing(SiteMetadataPath("title"))) =>
              /\ EmptyOrUndefined(head.title)
              /\ EmptyOrUndefined(MetaContent(head, "og:title"))
              /\ EmptyOrUndefined(MetaContent(head, "twitter:title"))
        /\ Missing(SiteMetadataPath("description")) =>
              /\ EmptyOrUndefined(MetaContent(head, "description"))
              /\ EmptyOrUndefined(MetaContent(head, "og:description"))
              /\ EmptyOrUndefined(MetaContent(head, "twitter:description"))
        /\ Missing(SiteMetadataPath("image")) =>
              /\ EmptyOrUndefined(MetaContent(head, "og:image"))
              /\ EmptyOrUndefined(MetaContent(head, "twitter:image"))
        /\ Missing(SiteMetadataPath("author")) =>
              EmptyOrUndefined(MetaContent(head, "twitter:creator"))
        /\ Missing(SiteMetadataPath("siteUrl")) =>
              \A i \in DOMAIN head.jsonld : head.jsonld[i][1] # "url"

\* C7: with a non-empty frontmatter title T and a site title S the title is
\* T, " - ", S; with an empty frontmatter title it is S; and in every render
\* the three title tags agree, the three description tags agree and the two
\* image tags agree.
C7_TitleAndSharedContents ==
    rendered =>
        LET T == Get(props, FrontmatterTitlePath)
            S == Get(props, SiteMetadataPath("title"))
        IN  /\ (T.t = "string" /\ T.s # <<>> /\ S.t = "string") =>
                  head.title = Str(T.s \o <<" - ">> \o S.s)
            /\ (T = Str(<<>>) /\ S.t = "string") => head.title = S
            /\ MetaContent(head, "og:title") = head.title
            /\ MetaContent(head, "twitter:title") = head.title
            /\ MetaContent(head, "og:description") = MetaContent(head, "description")
            /\ MetaContent(head, "twitter:description") = MetaContent(head, "description")
            /\ MetaContent(head, "twitter:image") = MetaContent(head, "og:image")

\* a page with both titles has been rendered
C7_Witness ==
    /\ rendered
    /\ head.title = Str(<<"Hello", " - ", "Blog">>)
    /\ MetaContent(head, "description") = Str(<<"A blog">>)

ManifestNames ==
    << "gatsby-plugin-sitemap", "gatsby-plugin-robots-txt", "gatsby-plugin-react-helmet",
       "gatsby-source-data", "gatsby-source-filesystem", "gatsby-plugin-stackbit-static-sass",
       "gatsby-transformer-remark", "gatsby-remark-page-creator",
       "@stackbit/gatsby-plugin-menus" >>

\* the positions at which a plugin has run
RunsOf(name) == {i \in DOMAIN ran : ran[i] = name}

\* C5: the manifest names these nine plugins in this order; an executor that
\* follows the list has, at every point, run a prefix of it with no plugin
\* twice; gatsby-remark-page-creator never runs unless
\* gatsby-transformer-remark ran before it, which never runs unless
\* gatsby-source-filesystem ran before it; and once Body renders every
\* plugin has run exactly once.
C5_ManifestOrder ==
    /\ [i \in DOMAIN plugins |-> PluginName(plugins[i])] = ManifestNames
    /\ ran = SubSeq(ManifestNames, 1, Len(ran))
    /\ \A i \in DOMAIN ran : Cardinality(RunsOf(ran[i])) = 1
    /\ \A i \in RunsOf("gatsby-remark-page-creator") :
          \E j \in RunsOf("gatsby-transformer-remark") : j < i
    /\ \A i \in RunsOf("gatsby-transformer-remark") :
          \E j \in RunsOf("gatsby-source-filesystem") : j < i
    /\ rendered =>
          \A k \in DOMAIN ManifestNames : Cardinality(RunsOf(ManifestNames[k])) = 1

\* the executor has run the page creator
C5_Witness == RunsOf("gatsby-remark-page-creator") # {} /\ ~rendered

----------------------------------------------------------------------------
(***************************************************************************)
(* Properties of the resolver (checked under FairSpecResolver)             *)
(***************************************************************************)
\* CreateNote c holds the mutex and waits to send to a subscriber whose
\* buffer is full and whose client is gone: nobody will ever receive from
\* that channel, so c never returns and never unlocks.
CreateNoteStuck(c) ==
    /\ gpc[c] = "send"
    /\ mutex.w = c
    /\ Len(chan[cur[c]]) = ChanCap
    /\ ctxDone[cur[c]]

\* C8: no CreateNote call is ever left holding the mutex forever, blocked on
\* a send that can never complete.
C8_CreateNoteNeverStuck == \A c \in Creators : ~CreateNoteStuck(c)

\* C9: once the context of a registered subscription is done, its entry is
\* eventually removed from noteCreatedSubscribers.
C9_DisconnectedIsUnsubscribed ==
    \A s \in Subscribers : (ctxDone[s] /\ s \in subscribers) ~> (s \notin subscribers)

=============================================================================
